---- MODULE Spec2Model ----
(***************************************************************************)
(* Model of the recursive-descent parser of src/src/parser.rs.             *)
(*                                                                         *)
(* The parser is modelled as a call-stack machine: every function of       *)
(* `impl Parser` is one action, which runs the topmost frame of that       *)
(* function from its current program point to its next call or return.     *)
(* The token cursor (Peekable<IntoIter<Token>> plus the `token` field) is  *)
(* the index `pos` into the immutable input `tokens`.                      *)
(***************************************************************************)
EXTENDS Integers, Sequences, FiniteSets, TLC

VARIABLES
    tokens,     \* the Vec<Token> handed to Parser::new
    pos,        \* index of self.token in tokens; Len(tokens)+1 = synthetic EOF
    advances,   \* history: number of calls of Parser::advance so far
    stack,      \* call stack of Parser methods, topmost frame last
    ret         \* value returned by the call that finished last

vars == <<tokens, pos, advances, stack, ret>>

----------------------------------------------------------------------------
(* Bounds of the explored inputs.                                          *)

MaxLen == 2         \* longest input over the whole token vocabulary
MaxCore == 4        \* longest input over the core vocabulary
MaxStmts == 2       \* most statements in a statement sequence
MaxRun == 2         \* longest run of Newline tokens

----------------------------------------------------------------------------
(* Tokens.  A token is its TokenType (ty, with the payload of Number and   *)
(* Identifier in val) and its source range s..e.                           *)

RawTok(ty, val) == [ty |-> ty, val |-> val]

T(ty) == RawTok(ty, "")

Ident(name) == RawTok("Identifier", name)

Num(x) == RawTok("Number", x)

\* The lexer's layout: the i-th token occupies offsets 2i-1..2i, so that
\* every token has width one and is preceded by one blank.
Layout(raw) ==
    [i \in 1..Len(raw) |->
        [ty |-> raw[i].ty, val |-> raw[i].val, s |-> 2 * i - 1, e |-> 2 * i]]

\* Token { ty: EOF, range: Default::default() }
EOFToken == [ty |-> "EOF", val |-> "", s |-> 0, e |-> 0]

Tok(p) == IF p <= Len(tokens) THEN tokens[p] ELSE EOFToken

\* self.token
CurTok == Tok(pos)

\* Parser::peek
peek == Tok(pos + 1).ty

\* advance() that leaves the last token under the cursor
AdvanceFrom_stuck(p) == IF p < Len(tokens) THEN p + 1 ELSE p

\* The cursor after one Parser::advance from cursor p.
AdvanceFrom(p) == IF p <= Len(tokens) THEN p + 1 ELSE p

----------------------------------------------------------------------------
(* Nodes, errors and results.                                              *)

\* Node { ty, range: s..e }.  kids are the owned child nodes in order; op is
\* the BinaryOp / UnaryOp; val the payload of Number, Identifier and
\* Assignment.  first and last are history: the indices of the first and the
\* last token consumed by the call that built the node (last < first when it
\* consumed none).
MkNode(ty, op, val, kids, s, e, first, last) ==
    [ty |-> ty, op |-> op, val |-> val, kids |-> kids, s |-> s, e |-> e,
     first |-> first, last |-> last]

NoNode == MkNode("None", "", "", <<>>, 0, 0, 0, 0)

NoErr == [msg |-> "", reason |-> <<>>, s |-> 0, e |-> 0]

NoRet == [kind |-> "none", node |-> NoNode, err |-> NoErr, n |-> 0]

\* Parser::error, called when the cursor is p
error(p, reason, start) ==
    [kind |-> "err", node |-> NoNode,
     err |-> [msg |-> "expected token", reason |-> reason,
              s |-> start, e |-> Tok(p).e],
     n |-> 0]

\* Ok(result) of an already built node
Ok(n) == [kind |-> "ok", node |-> n, err |-> NoErr, n |-> 0]

\* the u32 returned by skip_newlines
Count(k) == [kind |-> "count", node |-> NoNode, err |-> NoErr, n |-> k]

----------------------------------------------------------------------------
(* The call stack.                                                         *)

\* A fresh activation of a Parser method.  start, left, op, val, stmts, more
\* and n are the method's locals (start; left / result / right; the operator
\* chosen by the match; name; statements; more_statements; newlines).
\* entry is history: the cursor when the method was called.
Frame(fn, p) ==
    [fn |-> fn, pc |-> 0, start |-> 0, left |-> NoNode, op |-> "",
     val |-> "", stmts |-> <<>>, more |-> TRUE, n |-> 0, entry |-> p]

Top == stack[Len(stack)]

\* Parser::node, called by the running method when the cursor is p:
\* range = start..self.token.range.end
node(p, ty, op, val, kids, start) ==
    [kind |-> "ok",
     node |-> MkNode(ty, op, val, kids, start, Tok(p).e, Top.entry, p - 1),
     err |-> NoErr, n |-> 0]

Running(fn) == stack # <<>> /\ Top.fn = fn

Popped == SubSeq(stack, 1, Len(stack) - 1)

\* the running method, its locals now f, calls callee with the cursor at p
CallFrom(f, callee, p) == Append(Append(Popped, f), Frame(callee, p))

\* One step: the cursor becomes p after k advances, the stack st, and the
\* value handed to the resumed caller r.
Do(p, k, st, r) ==
    /\ pos' = p
    /\ advances' = advances + k
    /\ stack' = st
    /\ ret' = r
    /\ UNCHANGED tokens

\* `return r` (also the early return of the ? operator)
Return(r) == Do(pos, 0, Popped, r)

\* call callee without moving the cursor
Call(f, callee) == Do(pos, 0, CallFrom(f, callee, pos), NoRet)

\* self.advance(); then call callee
AdvanceCall(f, callee) ==
    Do(AdvanceFrom(pos), 1, CallFrom(f, callee, AdvanceFrom(pos)), NoRet)

\* self.advance(); self.node(...)
AdvanceNode(ty, op, val, kids, start) ==
    Do(AdvanceFrom(pos), 1, Popped,
       node(AdvanceFrom(pos), ty, op, val, kids, start))

----------------------------------------------------------------------------
(* The match arms of the grammar levels: the operator a token selects at a *)
(* level, "" when the level's match falls through to `_`.                  *)

\* arith_expr: Plus => Add, Minus => Sub
ArithOp(ty) ==
    CASE ty = "Plus" -> "Add"
      [] ty = "Minus" -> "Sub"
      [] OTHER -> ""

\* term: Star | Dot | Cross => Mul, Slash | Divide => Div, Percent | Mod => Mod
TermOp(ty) ==
    CASE ty \in {"Star", "Dot", "Cross"} -> "Mul"
      [] ty \in {"Slash", "Divide"} -> "Div"
      [] ty \in {"Percent", "Mod"} -> "Mod"
      [] OTHER -> ""

\* factor: Plus => Pos, Minus => Neg
SignOp(ty) ==
    CASE ty = "Plus" -> "Pos"
      [] ty = "Minus" -> "Neg"
      [] OTHER -> ""

\* power: Carrot => Pow
PowerOp(ty) == IF ty = "Carrot" THEN "Pow" ELSE ""

\* prefix: Sqrt, Cbrt, Fort
PrefixOp(ty) == IF ty \in {"Sqrt", "Cbrt", "Fort"} THEN ty ELSE ""

\* postfix: Exclamation => Fact, Degree => Degree
PostfixOp(ty) ==
    CASE ty = "Exclamation" -> "Fact"
      [] ty = "Degree" -> "Degree"
      [] OTHER -> ""

\* the LeftFloor arm with RightCeil building Ceil
FloorCloserOp_ceil(ty) ==
    CASE ty = "RightFloor" -> "Floor"
      [] ty = "RightCeil" -> "Ceil"
      [] OTHER -> ""

\* atom, LeftFloor arm: RightFloor => Floor, RightCeil => Abs
FloorCloserOp(ty) ==
    CASE ty = "RightFloor" -> "Floor"
      [] ty = "RightCeil" -> "Abs"
      [] OTHER -> ""

\* The method each level calls for the operand to the right of its operator.
ArithRight_term == "term"

ArithRight == "arith_expr"

TermRight == "term"

SignOperand_term == "term"

SignOperand == "factor"

PowerExponent == "factor"

PrefixOperand == "prefix"

\* statements without the end-of-stream test
IsEndMarker_never(n) == FALSE

\* statements: `statement.ty == NodeType::EOF`
IsEndMarker(n) == n.ty = "EOF"

\* the reason strings, as the list of what was expected
ExpectedOne(ty) == <<"expected", ty>>

ExpectedFloorClose == <<"expected", "RightFloor", "or", "RightCeil">>

ExpectedAtom ==
    <<"expected", "number", "variable", "function name",
      "LeftParen", "Pipe", "LeftFloor", "or", "LeftCeil">>

----------------------------------------------------------------------------
(* The methods of Parser, one action each.                                 *)

\* pub fn parse
parse ==
    /\ Running("parse")
    /\ CASE Top.pc = 0 -> Call([Top EXCEPT !.pc = 1], "statements")
         [] Top.pc = 1 -> Return(ret)

\* fn skip_newlines: one iteration of the while loop, or the return
skip_newlines ==
    /\ Running("skip_newlines")
    /\ IF CurTok.ty = "Newline"
       THEN Do(AdvanceFrom(pos), 1,
               Append(Popped, [Top EXCEPT !.n = Top.n + 1]), NoRet)
       ELSE Return(Count(Top.n))

\* fn statements
statements ==
    /\ Running("statements")
    /\ CASE Top.pc = 0 ->
            \* let start = ...; self.skip_newlines();
            Call([Top EXCEPT !.pc = 1, !.start = CurTok.s], "skip_newlines")
         [] Top.pc = 1 ->
            \* statements.push(self.statement()?)
            Call([Top EXCEPT !.pc = 2], "statement")
         [] Top.pc = 2 ->
            IF ret.kind = "err"
            THEN Return(ret)
            ELSE Call([Top EXCEPT !.pc = 3, !.stmts = <<ret.node>>,
                                  !.more = TRUE], "skip_newlines")
         [] Top.pc = 3 ->
            \* top of the loop, after skip_newlines
            LET more_statements == IF ret.n = 0 THEN FALSE ELSE Top.more
            IN  IF ~more_statements
                THEN Return(node(pos, "Statements", "", "", Top.stmts,
                                 Top.start))
                ELSE Call([Top EXCEPT !.pc = 4], "statement")
         [] Top.pc = 4 ->
            IF ret.kind = "err"
            THEN Return(ret)
            ELSE IF IsEndMarker(ret.node)
            THEN Call([Top EXCEPT !.pc = 3, !.more = FALSE], "skip_newlines")
            ELSE Call([Top EXCEPT !.pc = 3,
                                  !.stmts = Append(Top.stmts, ret.node)],
                      "skip_newlines")

\* pub fn statement
statement ==
    /\ Running("statement")
    /\ CASE Top.pc = 0 -> Call([Top EXCEPT !.pc = 1], "expr")
         [] Top.pc = 1 -> Return(ret)

\* fn expr
expr ==
    /\ Running("expr")
    /\ CASE Top.pc = 0 ->
            IF CurTok.ty = "Identifier" /\ peek = "Eq"
            THEN Do(AdvanceFrom(AdvanceFrom(pos)), 2,
                    CallFrom([Top EXCEPT !.pc = 1, !.start = CurTok.s,
                                         !.val = CurTok.val], "arith_expr",
                             AdvanceFrom(AdvanceFrom(pos))),
                    NoRet)
            ELSE Call([Top EXCEPT !.pc = 2, !.start = CurTok.s], "arith_expr")
         [] Top.pc = 1 ->
            IF ret.kind = "err"
            THEN Return(ret)
            ELSE Return(node(pos, "Assignment", "", Top.val, <<ret.node>>,
                             Top.start))
         [] Top.pc = 2 -> Return(ret)

\* fn arith_expr
arith_expr ==
    /\ Running("arith_expr")
    /\ CASE Top.pc = 0 ->
            Call([Top EXCEPT !.pc = 1, !.start = CurTok.s], "term")
         [] Top.pc = 1 ->
            IF ret.kind = "err"
            THEN Return(ret)
            ELSE IF ArithOp(CurTok.ty) # ""
            THEN AdvanceCall([Top EXCEPT !.pc = 2, !.left = ret.node,
                                         !.op = ArithOp(CurTok.ty)],
                             ArithRight)
            ELSE Return(Ok(ret.node))
         [] Top.pc = 2 ->
            IF ret.kind = "err"
            THEN Return(ret)
            ELSE Return(node(pos, "Binary", Top.op, "",
                             <<Top.left, ret.node>>, Top.start))

\* fn term
term ==
    /\ Running("term")
    /\ CASE Top.pc = 0 ->
            Call([Top EXCEPT !.pc = 1, !.start = CurTok.s], "factor")
         [] Top.pc = 1 ->
            IF ret.kind = "err"
            THEN Return(ret)
            ELSE IF TermOp(CurTok.ty) # ""
            THEN AdvanceCall([Top EXCEPT !.pc = 2, !.left = ret.node,
                                         !.op = TermOp(CurTok.ty)],
                             TermRight)
            ELSE Return(Ok(ret.node))
         [] Top.pc = 2 ->
            IF ret.kind = "err"
            THEN Return(ret)
            ELSE Return(node(pos, "Binary", Top.op, "",
                             <<Top.left, ret.node>>, Top.start))

\* fn factor
factor ==
    /\ Running("factor")
    /\ CASE Top.pc = 0 ->
            IF SignOp(CurTok.ty) # ""
            THEN AdvanceCall([Top EXCEPT !.pc = 1, !.start = CurTok.s,
                                         !.op = SignOp(CurTok.ty)],
                             SignOperand)
            ELSE Call([Top EXCEPT !.pc = 2, !.start = CurTok.s], "power")
         [] Top.pc = 1 ->
            IF ret.kind = "err"
            THEN Return(ret)
            ELSE Return(node(pos, "Unary", Top.op, "", <<ret.node>>,
                             Top.start))
         [] Top.pc = 2 -> Return(ret)

\* fn power
power ==
    /\ Running("power")
    /\ CASE Top.pc = 0 ->
            Call([Top EXCEPT !.pc = 1, !.start = CurTok.s], "prefix")
         [] Top.pc = 1 ->
            IF ret.kind = "err"
            THEN Return(ret)
            ELSE IF PowerOp(CurTok.ty) # ""
            THEN AdvanceCall([Top EXCEPT !.pc = 2, !.left = ret.node,
                                         !.op = PowerOp(CurTok.ty)],
                             PowerExponent)
            ELSE Return(Ok(ret.node))
         [] Top.pc = 2 ->
            IF ret.kind = "err"
            THEN Return(ret)
            ELSE Return(node(pos, "Binary", Top.op, "",
                             <<Top.left, ret.node>>, Top.start))

\* fn prefix
prefix ==
    /\ Running("prefix")
    /\ CASE Top.pc = 0 ->
            IF PrefixOp(CurTok.ty) # ""
            THEN AdvanceCall([Top EXCEPT !.pc = 1, !.start = CurTok.s,
                                         !.op = PrefixOp(CurTok.ty)],
                             PrefixOperand)
            ELSE Call([Top EXCEPT !.pc = 2, !.start = CurTok.s], "postfix")
         [] Top.pc = 1 ->
            IF ret.kind = "err"
            THEN Return(ret)
            ELSE Return(node(pos, "Unary", Top.op, "", <<ret.node>>,
                             Top.start))
         [] Top.pc = 2 -> Return(ret)

\* fn postfix
postfix ==
    /\ Running("postfix")
    /\ CASE Top.pc = 0 ->
            Call([Top EXCEPT !.pc = 1, !.start = CurTok.s], "atom")
         [] Top.pc = 1 ->
            IF ret.kind = "err"
            THEN Return(ret)
            ELSE IF PostfixOp(CurTok.ty) # ""
            THEN AdvanceNode("Unary", PostfixOp(CurTok.ty), "", <<ret.node>>,
                             Top.start)
            ELSE Return(Ok(ret.node))

\* The closing token the bracketed arm of atom at program point pc waits for.
Closer(pc) ==
    CASE pc = 1 -> "RightParen"
      [] pc = 2 -> "Pipe"
      [] pc = 4 -> "RightCeil"

\* The program point at which atom resumes after the inner arith_expr of the
\* bracket opened by ty; 0 when ty opens no bracket.
OpenArm(ty) ==
    CASE ty = "LeftParen" -> 1
      [] ty = "Pipe" -> 2
      [] ty = "LeftFloor" -> 3
      [] ty = "LeftCeil" -> 4
      [] OTHER -> 0

\* fn atom
atom ==
    /\ Running("atom")
    /\ CASE Top.pc = 0 ->
            IF CurTok.ty \in {"Number", "Identifier"}
            THEN AdvanceNode(CurTok.ty, "", CurTok.val, <<>>, CurTok.s)
            ELSE IF OpenArm(CurTok.ty) # 0
            THEN AdvanceCall([Top EXCEPT !.pc = OpenArm(CurTok.ty),
                                         !.start = CurTok.s], "arith_expr")
            ELSE IF CurTok.ty = "EOF"
            THEN Return(node(pos, "EOF", "", "", <<>>, CurTok.s))
            ELSE Return(error(pos, ExpectedAtom, CurTok.s))
         [] Top.pc = 3 ->
            \* LeftFloor arm: match self.token.ty
            IF ret.kind = "err"
            THEN Return(ret)
            ELSE IF FloorCloserOp(CurTok.ty) # ""
            THEN AdvanceNode("Unary", FloorCloserOp(CurTok.ty), "",
                             <<ret.node>>, Top.start)
            ELSE Return(error(pos, ExpectedFloorClose, Top.start))
         [] Top.pc \in {1, 2, 4} ->
            IF ret.kind = "err"
            THEN Return(ret)
            ELSE IF CurTok.ty # Closer(Top.pc)
            THEN Return(error(pos, ExpectedOne(Closer(Top.pc)), Top.start))
            ELSE IF Top.pc = 1
            THEN Do(AdvanceFrom(pos), 1, Popped, Ok(ret.node))
            ELSE AdvanceNode("Unary", IF Top.pc = 2 THEN "Abs" ELSE "Ceil",
                             "", <<ret.node>>, Top.start)

----------------------------------------------------------------------------
(* The explored inputs.                                                    *)

A == Ident("a")

B == Num("2")

C == Ident("c")

BinaryToks ==
    {"Plus", "Minus", "Star", "Dot", "Cross", "Slash", "Divide", "Percent",
     "Mod", "Carrot"}

\* every TokenType the lexer produces
Alphabet ==
    {A, B, T("Newline"), T("Eq"), T("Sqrt"), T("Cbrt"), T("Fort"),
     T("Exclamation"), T("Degree"), T("LeftParen"), T("RightParen"),
     T("Pipe"), T("LeftFloor"), T("RightFloor"), T("LeftCeil"),
     T("RightCeil")} \cup {T(ty) : ty \in BinaryToks}

CoreAlphabet == {A, C, T("Plus"), T("Minus"), T("Star"), T("Carrot")}

SeqsUpTo(S, n) == UNION {[1..k -> S] : k \in 0..n}

\* k copies of Newline
Newlines(k) == [i \in 1..k |-> T("Newline")]

\* all inputs up to MaxLen tokens
General == SeqsUpTo(Alphabet, MaxLen)

\* an operand followed by any two tokens
Triples == {<<x, t1, t2>> : x \in {A, B}, t1 \in Alphabet, t2 \in Alphabet}

\* a op1 b op2 c
Chains == {<<A, T(o1), B, T(o2), C>> : o1 \in BinaryToks, o2 \in BinaryToks}

\* signs, products and powers of two identifiers
Signs == SeqsUpTo(CoreAlphabet, MaxCore)

\* Well-formed expressions with the shape (node type, operator, payload and
\* children, without ranges) of the tree they denote.
Sh(ty, op, val, kids) == [ty |-> ty, op |-> op, val |-> val, kids |-> kids]

ShA == Sh("Identifier", "", "a", <<>>)

ShB == Sh("Number", "", "2", <<>>)

ShC == Sh("Identifier", "", "c", <<>>)

ShBin(l, op, r) == Sh("Binary", op, "", <<l, r>>)

ShUn(op, x) == Sh("Unary", op, "", <<x>>)

ShAsg(name, r) == Sh("Assignment", "", name, <<r>>)

ShStmts(kids) == Sh("Statements", "", "", kids)

Exprs ==
    << [toks |-> <<A>>, shape |-> ShA],
       [toks |-> <<B>>, shape |-> ShB],
       [toks |-> <<A, T("Plus"), B>>, shape |-> ShBin(ShA, "Add", ShB)],
       [toks |-> <<A, T("Star"), B, T("Minus"), C>>,
        shape |-> ShBin(ShBin(ShA, "Mul", ShB), "Sub", ShC)],
       [toks |-> <<T("Minus"), A>>, shape |-> ShUn("Neg", ShA)],
       [toks |-> <<B, T("Carrot"), A>>, shape |-> ShBin(ShB, "Pow", ShA)],
       [toks |-> <<A, T("Exclamation")>>, shape |-> ShUn("Fact", ShA)],
       [toks |-> <<T("Sqrt"), B>>, shape |-> ShUn("Sqrt", ShB)],
       [toks |-> <<T("Pipe"), A, T("Pipe")>>, shape |-> ShUn("Abs", ShA)],
       [toks |-> <<T("LeftParen"), A, T("RightParen")>>, shape |-> ShA],
       [toks |-> <<T("LeftCeil"), A, T("RightCeil")>>,
        shape |-> ShUn("Ceil", ShA)] >>

ExprIdx == 1..Len(Exprs)

\* E and ( E )
Groupings ==
    {Exprs[i].toks : i \in ExprIdx}
    \cup {<<T("LeftParen")>> \o Exprs[i].toks \o <<T("RightParen")>> :
             i \in ExprIdx}

\* a floor or ceiling bracket, an expression, and at most one more token
Brackets ==
    {<<T(open)>> \o Exprs[i].toks \o tail :
        open \in {"LeftFloor", "LeftCeil"}, i \in ExprIdx,
        tail \in SeqsUpTo(Alphabet, 1)}

\* Well-formed statements.
Stmts ==
    << [toks |-> <<A>>, shape |-> ShA],
       [toks |-> <<A, T("Eq"), B>>, shape |-> ShAsg("a", ShB)],
       [toks |-> <<T("LeftParen"), C, T("Minus"), B, T("RightParen")>>,
        shape |-> ShBin(ShC, "Sub", ShB)] >>

StmtIdx == 1..Len(Stmts)

\* s1 .. sn as chosen by pick, separated by the runs of Newline given by sep
RECURSIVE Joined(_, _, _)
Joined(pick, sep, k) ==
    IF k = 1
    THEN Stmts[pick[1]].toks
    ELSE Joined(pick, sep, k - 1) \o Newlines(sep[k - 1])
         \o Stmts[pick[k]].toks

\* newline* s1 (newline+ s) ... newline*
Programs ==
    {Newlines(lead) \o Joined(pick, sep, Len(pick)) \o Newlines(trail) :
        lead \in 0..MaxRun, trail \in 0..MaxRun,
        pick \in UNION {[1..n -> StmtIdx] : n \in 1..MaxStmts},
        sep \in [1..(MaxStmts - 1) -> 1..MaxRun]}

\* two statements with no Newline between them
Adjacent ==
    {Stmts[i].toks \o Stmts[j].toks : i \in StmtIdx, j \in StmtIdx}

Inputs ==
    General \cup Triples \cup Chains \cup Signs \cup Groupings
    \cup Brackets \cup Programs \cup Adjacent

----------------------------------------------------------------------------
(* The state machine.                                                      *)

\* Parser::new(tokens), about to run parse()
Init ==
    /\ tokens \in {Layout(raw) : raw \in Inputs}
    /\ pos = 1
    /\ advances = 0
    /\ stack = <<Frame("parse", 1)>>
    /\ ret = NoRet

Next ==
    \/ parse
    \/ statements
    \/ skip_newlines
    \/ statement
    \/ expr
    \/ arith_expr
    \/ term
    \/ factor
    \/ power
    \/ prefix
    \/ postfix
    \/ atom

Spec == Init /\ [][Next]_vars

\* parse() runs to completion once called: the program is sequential
FairSpec == Spec /\ WF_vars(Next)

\* parse() has returned; ret is its ParseResult
Done == stack = <<>>

\* the input without its ranges
Raw == [i \in 1..Len(tokens) |-> RawTok(tokens[i].ty, tokens[i].val)]

\* a node without its ranges
RECURSIVE Shape(_)
Shape(n) ==
    Sh(n.ty, n.op, n.val, [i \in 1..Len(n.kids) |-> Shape(n.kids[i])])

\* the nodes of the tree rooted at n
RECURSIVE Nodes(_)
Nodes(n) == {n} \cup UNION {Nodes(n.kids[i]) : i \in 1..Len(n.kids)}

----------------------------------------------------------------------------
(* Properties.                                                             *)

Succeeded == Done /\ ret.kind = "ok"

Failed == Done /\ ret.kind = "err"

\* parse() returned the Statements node whose children have the shapes kids
Yields(kids) == Succeeded /\ Shape(ret.node) = ShStmts(kids)

PostfixToks == {"Exclamation", "Degree"}

\* x followed by two postfix operators
PostfixChains ==
    {<<x, T(p1), T(p2)>> : x \in {A, B}, p1 \in PostfixToks, p2 \in PostfixToks}

\* C1: parse() of an operand followed by two consecutive postfix operators
\* (each Exclamation or Degree) returns a ParseError.
C1_PostfixDoesNotChain == (Done /\ Raw \in PostfixChains) => ret.kind = "err"

\* the operand of an operator is the end-of-stream marker
HasEOFOperand(n) ==
    /\ n.ty \in {"Binary", "Unary", "Assignment"}
    /\ \E i \in 1..Len(n.kids) : n.kids[i].ty = "EOF"

\* the tokens after which an operand must follow
NeedsOperand ==
    BinaryToks \cup {"Sqrt", "Cbrt", "Fort", "Eq"}

\* the input ends right after an operator, a sign, a prefix function or the
\* `=` of an assignment
EndsWithoutOperand ==
    /\ Len(tokens) >= 1
    /\ tokens[Len(tokens)].ty \in NeedsOperand
    /\ tokens[Len(tokens)].ty = "Eq" =>
           (Len(tokens) = 2 /\ tokens[1].ty = "Identifier")

\* C2: when the operand of a binary operator, a sign, a prefix function or
\* the `=` of an assignment is missing, as at the end of the stream, parse()
\* returns a ParseError; no returned tree has an EOF node as an operand of a
\* Binary, Unary or Assignment node.
C2_MissingOperandFails ==
    /\ (Done /\ EndsWithoutOperand /\ pos > Len(tokens)) => ret.kind = "err"
    /\ Succeeded => \A n \in Nodes(ret.node) : ~HasEOFOperand(n)

\* the node spans exactly the tokens its call consumed
SpansConsumed(n) ==
    n.last >= n.first =>
        /\ n.s = tokens[n.first].s
        /\ n.e = tokens[n.last].e

\* C3: in every returned tree, every node's range (the root's included)
\* starts at the start of the first token the node consumed and ends at the
\* end of the last token it consumed.
C3_RangeSpansConsumed ==
    Succeeded => \A n \in Nodes(ret.node) : SpansConsumed(n)

\* C4: for a well-formed expression E, parsing ( E ) yields the tree shape
\* of parsing E, with no wrapper node, and the node's range runs from the
\* start of LeftParen to the end of RightParen.
C4_GroupingTransparent ==
    (Done /\ Raw \in Groupings) =>
        \A i \in ExprIdx :
            /\ Raw = Exprs[i].toks => Yields(<<Exprs[i].shape>>)
            /\ Raw = <<T("LeftParen")>> \o Exprs[i].toks
                         \o <<T("RightParen")>> =>
                   /\ Yields(<<Exprs[i].shape>>)
                   /\ ret.node.kids[1].s = tokens[1].s
                   /\ ret.node.kids[1].e = tokens[Len(tokens)].e

\* the binary operator each token spells, and its level
Additive == {"Plus", "Minus"}

Multiplicative == {"Star", "Dot", "Cross", "Slash", "Divide", "Percent", "Mod"}

BinaryOpOf(ty) ==
    CASE ty = "Plus" -> "Add"
      [] ty = "Minus" -> "Sub"
      [] ty \in {"Star", "Dot", "Cross"} -> "Mul"
      [] ty \in {"Slash", "Divide"} -> "Div"
      [] ty \in {"Percent", "Mod"} -> "Mod"
      [] ty = "Carrot" -> "Pow"

Level(ty) ==
    CASE ty \in Additive -> 1
      [] ty \in Multiplicative -> 2
      [] ty = "Carrot" -> 3

RightNested(o1, o2) ==
    ShBin(ShA, BinaryOpOf(o1), ShBin(ShB, BinaryOpOf(o2), ShC))

LeftNested(o1, o2) ==
    ShBin(ShBin(ShA, BinaryOpOf(o1), ShB), BinaryOpOf(o2), ShC)

\* C5: a op1 b op2 c with op1 and op2 of the same level (additive,
\* multiplicative or power) parses as Binary(a, op1, Binary(b, op2, c)).
C5_RightAssociative ==
    (Done /\ Raw \in Chains) =>
        \A o1 \in BinaryToks, o2 \in BinaryToks :
            (Level(o1) = Level(o2) /\ Raw = <<A, T(o1), B, T(o2), C>>)
                => Yields(<<RightNested(o1, o2)>>)

C5_Witness ==
    /\ Raw = <<A, T("Minus"), B, T("Minus"), C>>
    /\ Yields(<<ShBin(ShA, "Sub", ShBin(ShB, "Sub", ShC))>>)

SignOf(ty) == IF ty = "Plus" THEN "Pos" ELSE "Neg"

\* C6: the levels bind additive < multiplicative < unary sign < power:
\* in a op1 b op2 c the operator of the higher level takes b; a sign applies
\* to the power that follows it and not to a product; an exponent may carry
\* a sign; signs nest.
C6_Precedence ==
    (Done /\ Len(tokens) \in 3..5) =>
        /\ \A o1 \in BinaryToks, o2 \in BinaryToks :
              Raw = <<A, T(o1), B, T(o2), C>> =>
                  /\ Level(o1) < Level(o2) => Yields(<<RightNested(o1, o2)>>)
                  /\ Level(o1) > Level(o2) => Yields(<<LeftNested(o1, o2)>>)
        /\ \A g \in Additive, h \in Additive, m \in Multiplicative :
              /\ Raw = <<T(g), A, T(m), C>> =>
                    Yields(<<ShBin(ShUn(SignOf(g), ShA), BinaryOpOf(m), ShC)>>)
              /\ Raw = <<T(g), A, T("Carrot"), C>> =>
                    Yields(<<ShUn(SignOf(g), ShBin(ShA, "Pow", ShC))>>)
              /\ Raw = <<A, T("Carrot"), T(g), C>> =>
                    Yields(<<ShBin(ShA, "Pow", ShUn(SignOf(g), ShC))>>)
              /\ Raw = <<T(g), T(h), A>> =>
                    Yields(<<ShUn(SignOf(g), ShUn(SignOf(h), ShA))>>)

C6_Witness ==
    /\ Raw = <<T("Minus"), A, T("Carrot"), C>>
    /\ Yields(<<ShUn("Neg", ShBin(ShA, "Pow", ShC))>>)

\* The maximal Newline-free segments of the token sequence raw, in order.
RECURSIVE Segments(_, _)
Segments(raw, cur) ==
    IF raw = <<>>
    THEN IF cur = <<>> THEN <<>> ELSE <<cur>>
    ELSE IF Head(raw) = T("Newline")
    THEN (IF cur = <<>> THEN <<>> ELSE <<cur>>) \o Segments(Tail(raw), <<>>)
    ELSE Segments(Tail(raw), Append(cur, Head(raw)))

\* the shape of the well-formed statement spelled by the tokens seg
StmtShape(seg) == Stmts[CHOOSE i \in StmtIdx : Stmts[i].toks = seg].shape

\* the shapes of the statements of a program, in input order
ProgramShapes(raw) ==
    LET segs == Segments(raw, <<>>)
    IN  [k \in 1..Len(segs) |-> StmtShape(segs[k])]

\* C7: newline* s1 (newline+ s2) ... newline* with n >= 1 well-formed
\* statements parses to a Statements node with exactly the n statements in
\* input order, consuming the whole input; two statements with no Newline
\* between them parse to the first one alone, the cursor left on the first
\* token of the second, and parse() succeeds.
C7_StatementSequencing ==
    /\ (Done /\ Raw \in Programs) =>
          /\ Yields(ProgramShapes(Raw))
          /\ Len(ret.node.kids) = Len(Segments(Raw, <<>>))
          /\ Len(ret.node.kids) \in 1..MaxStmts
          /\ pos = Len(tokens) + 1
    /\ (Done /\ Raw \in Adjacent) =>
          \A i \in StmtIdx, j \in StmtIdx :
              Raw = Stmts[i].toks \o Stmts[j].toks =>
                  /\ Yields(<<Stmts[i].shape>>)
                  /\ pos = Len(Stmts[i].toks) + 1

C7_Witness ==
    /\ Raw = <<T("Newline"), A, T("Newline"), T("Newline"), A, T("Eq"), B,
               T("Newline")>>
    /\ Yields(<<ShA, ShAsg("a", ShB)>>)
    /\ pos = Len(tokens) + 1

\* the tokens that cannot continue an expression
Stoppers ==
    {T("Newline"), T("Eq"), T("Sqrt"), T("Cbrt"), T("Fort"), A, B,
     T("LeftParen"), T("RightParen"), T("Pipe"), T("LeftFloor"),
     T("RightFloor"), T("LeftCeil"), T("RightCeil")}

\* parse() failed with the reason r, its range ending at the end of the
\* current token, the last token of the input or the end-of-stream sentinel
\* after it
FailsExpecting(r) ==
    /\ Failed
    /\ ret.err.reason = r
    /\ ret.err.e = CurTok.e
    /\ pos >= Len(tokens)

\* C8: for a well-formed x, LeftFloor x RightFloor is Unary(Floor, x),
\* LeftFloor x RightCeil is Unary(Abs, x), LeftCeil x RightCeil is
\* Unary(Ceil, x); LeftCeil x t with t not RightCeil, and LeftFloor x t with
\* t neither RightFloor nor RightCeil, fail with an "expected" error whose
\* range ends at the end of the offending token, which is t itself when t
\* cannot continue x.
C8_FloorCeilBrackets ==
    (Done /\ Raw \in Brackets) =>
    \A i \in ExprIdx :
      LET x == Exprs[i].toks
          sh == Exprs[i].shape
      IN  /\ Raw = <<T("LeftFloor")>> \o x \o <<T("RightFloor")>>
                => Yields(<<ShUn("Floor", sh)>>)
          /\ Raw = <<T("LeftFloor")>> \o x \o <<T("RightCeil")>>
                => Yields(<<ShUn("Abs", sh)>>)
          /\ Raw = <<T("LeftCeil")>> \o x \o <<T("RightCeil")>>
                => Yields(<<ShUn("Ceil", sh)>>)
          /\ \A t \in Alphabet :
                /\ (t # T("RightCeil")
                     /\ Raw = <<T("LeftCeil")>> \o x \o <<t>>) =>
                       /\ FailsExpecting(ExpectedOne("RightCeil"))
                       /\ ret.err.reason[1] = "expected"
                       /\ t \in Stoppers =>
                              (pos = Len(tokens)
                               /\ ret.err.e = tokens[Len(tokens)].e)
                /\ (t \notin {T("RightFloor"), T("RightCeil")}
                     /\ Raw = <<T("LeftFloor")>> \o x \o <<t>>) =>
                       /\ FailsExpecting(ExpectedFloorClose)
                       /\ ret.err.reason[1] = "expected"
                       /\ t \in Stoppers =>
                              (pos = Len(tokens)
                               /\ ret.err.e = tokens[Len(tokens)].e)

C8_Witness ==
    /\ Raw = <<T("LeftFloor"), A, T("Plus"), B, T("RightCeil")>>
    /\ Yields(<<ShUn("Abs", ShBin(ShA, "Add", ShB))>>)

\* C9: parse() terminates with a tree or an error; the cursor never moves
\* backward; there is at most one advance per input token; once the stream
\* is exhausted the current token stays the end-of-stream sentinel.
C9_ForwardAndTerminates ==
    /\ <>Done
    /\ [](Done => ret.kind \in {"ok", "err"})
    /\ [](advances <= Len(tokens))
    /\ [][pos' >= pos]_vars
    /\ [][pos > Len(tokens) => (pos' > Len(tokens) /\ CurTok' = EOFToken)]_vars

C9_Witness ==
    /\ Done
    /\ Len(tokens) = 5
    /\ advances = Len(tokens)
    /\ pos = Len(tokens) + 1

\* C10: the range of every node of a returned tree, and of every returned
\* ParseError, satisfies start <= end.
C10_RangesWellFormed ==
    /\ Succeeded => \A n \in Nodes(ret.node) : n.s <= n.e
    /\ Failed => ret.err.s <= ret.err.e

====
